---- MODULE Spec2Model ----
(***************************************************************************)
(* Model of the page script of Advanced-Bankist (src/unnamed/part_001):    *)
(* the image slider (slide index, slide offsets, dot strip, the keyboard   *)
(* listener that an IntersectionObserver attaches to / detaches from the   *)
(* document), the modal window, the operations tabs (with the delegation   *)
(* variant of src/script.js), the sticky navigation, the section reveal    *)
(* and the lazy images.  Every handler runs to completion on the single UI *)
(* thread, so one action is one delivered event.                           *)
(***************************************************************************)
EXTENDS Integers, Sequences, FiniteSets, TLC

VARIABLES
    currentSlide,      \* let currentSlide (part_001:246)
    allSlides,         \* NodeList .slide; [transform |-> percent of translateX]
    allDots,           \* NodeList .dots__dot; [slide |-> data-slide, active |-> flag]
    keydownListeners,  \* the document's 'keydown' listener list, in call order
    showModalHidden,   \* .modal carries the class 'hidden'
    overlayHidden,     \* .overlay carries the class 'hidden'
    bodyOverflow,      \* document.body.style.overflow
    previousOverflow,  \* let previousOverflow (part_001:441)
    delegation,        \* selector the tab click handler passes to closest()
    operationsTabs,    \* NodeList .operations__tab; [tab |-> data-tab, active |-> flag]
    operationsContents,\* NodeList .operations__content; [num |-> class suffix, active |-> flag]
    navSticky,         \* .nav carries the class 'sticky'
    allSections,       \* NodeList .section; [hidden |-> class flag, observed |-> by sectionObserver]
    allImages,         \* NodeList .features__img; src, blur class, observed, load state
    uncaught,          \* the latest handler ended with an uncaught exception
    tracing,           \* history: how many events the window keeps; 0 keeps no history
    overflow0,         \* history: document.body.style.overflow when the script started
    everIntersecting,  \* history: some slider callback carried an intersecting entry
    hist,              \* history: the latest events (tracing of them), each with the state before it
    lastEntries,       \* history: entries of the latest slider visibility callback
    nextRun,           \* history: nextSlide() calls in the current uninterrupted run
    runStart           \* history: currentSlide when that run started

slideVars == <<currentSlide, allSlides, allDots>>
modalVars == <<showModalHidden, overlayHidden, bodyOverflow, previousOverflow>>
tabVars == <<delegation, operationsTabs, operationsContents>>
watchVars == <<navSticky, allSections, allImages>>
runVars == <<nextRun, runStart>>
histVars == <<hist, lastEntries, nextRun, runStart, tracing, overflow0, everIntersecting>>

vars == <<currentSlide, allSlides, allDots, keydownListeners,
          showModalHidden, overlayHidden, bodyOverflow, previousOverflow,
          delegation, operationsTabs, operationsContents,
          navSticky, allSections, allImages, uncaught,
          hist, lastEntries, nextRun, runStart, tracing, overflow0, everIntersecting>>

\* ---------------------------------------------------------------- bounds
MaxSlides == 4      \* number of .slide elements in the document: 1..MaxSlides
MaxEntries == 2     \* entries delivered by one observer callback: 1..MaxEntries
MaxTabs == 3        \* number of .operations__tab buttons (and of content panels)
MaxSections == 1    \* number of .section elements
MaxImages == 1      \* number of .features__img elements
MaxTargets == 2     \* elements one observer watches, where that observer is the subject
\* keys a keydown event can carry: the two the slider maps and one other
Keys == {"ArrowRight", "ArrowLeft", "Escape"}

\* ------------------------------------------------------- pure helpers
\* `${index}` in the data-slide attribute: decimal text of the index
TemplateIndex(index) == ToString(index)

\* Number(event.target.dataset.slide): the number whose decimal text is s
Number(s) == CHOOSE n \in 0..(MaxSlides + 1) : ToString(n) = s

Min(S) == CHOOSE x \in S : \A y \in S : x <= y

\* the slider part of the page, as the value the handlers transform
Carousel == [currentSlide |-> currentSlide,
             allSlides    |-> allSlides,
             allDots      |-> allDots]

SlideMoveReversed(slides, cs) ==
    [i \in DOMAIN slides |-> [slides[i] EXCEPT !.transform = 100 * (cs - (i - 1))]]

\* slide.style.transform = translateX(100 * (index - currentSlide) %); index is 0-based
slideMove(slides, cs) ==
    [i \in DOMAIN slides |-> [slides[i] EXCEPT !.transform = 100 * ((i - 1) - cs)]]

CreateDotsFromOne(slides) ==
    [i \in DOMAIN slides |-> [slide |-> TemplateIndex(i), active |-> FALSE]]

\* one <button class="dots__dot" data-slide="index"> per slide, appended in order
createDots(slides) ==
    [i \in DOMAIN slides |-> [slide |-> TemplateIndex(i - 1), active |-> FALSE]]

ActivateDotToggle(dots, curslide) ==
    [i \in DOMAIN dots |->
        [dots[i] EXCEPT !.active = IF dots[i].slide = TemplateIndex(curslide)
                                   THEN ~dots[i].active ELSE FALSE]]

ActivateDotKeep(dots, curslide) ==
    LET matches == {i \in DOMAIN dots : dots[i].slide = TemplateIndex(curslide)}
    IN  IF matches = {} THEN dots
        ELSE [dots EXCEPT ![Min(matches)].active = TRUE]

\* remove the active class from every dot, then add it to the first dot whose
\* data-slide is curslide; with no such dot querySelector gives null and the
\* classList access throws after the clearing has been done
activateDot(dots, curslide) ==
    LET cleared == [i \in DOMAIN dots |-> [dots[i] EXCEPT !.active = FALSE]]
        matches == {i \in DOMAIN cleared : cleared[i].slide = TemplateIndex(curslide)}
    IN  IF matches = {} THEN cleared
        ELSE [cleared EXCEPT ![Min(matches)].active = TRUE]

NextSlideNoWrap(c) ==
    LET cs == c.currentSlide + 1
    IN  [currentSlide |-> cs,
         allSlides    |-> slideMove(c.allSlides, cs),
         allDots      |-> activateDot(c.allDots, cs)]

NextSlideStick(c) ==
    LET cs == IF c.currentSlide = Len(c.allSlides) - 1 THEN c.currentSlide
              ELSE c.currentSlide + 1
    IN  [currentSlide |-> cs,
         allSlides    |-> slideMove(c.allSlides, cs),
         allDots      |-> activateDot(c.allDots, cs)]

NextSlideOffByOne(c) ==
    LET cs == IF c.currentSlide = Len(c.allSlides) THEN 0 ELSE c.currentSlide + 1
    IN  [currentSlide |-> cs,
         allSlides    |-> slideMove(c.allSlides, cs),
         allDots      |-> activateDot(c.allDots, cs)]

nextSlide(c) ==
    LET cs == IF c.currentSlide = Len(c.allSlides) - 1 THEN 0 ELSE c.currentSlide + 1
    IN  [currentSlide |-> cs,
         allSlides    |-> slideMove(c.allSlides, cs),
         allDots      |-> activateDot(c.allDots, cs)]

PreviousSlideClamp(c) ==
    LET cs == IF c.currentSlide = 0 THEN 0 ELSE c.currentSlide - 1
    IN  [currentSlide |-> cs,
         allSlides    |-> slideMove(c.allSlides, cs),
         allDots      |-> activateDot(c.allDots, cs)]

PreviousSlideWrapLen(c) ==
    LET cs == IF c.currentSlide = 0 THEN Len(c.allSlides) ELSE c.currentSlide - 1
    IN  [currentSlide |-> cs,
         allSlides    |-> slideMove(c.allSlides, cs),
         allDots      |-> activateDot(c.allDots, cs)]

previousSlide(c) ==
    LET cs == IF c.currentSlide = 0 THEN Len(c.allSlides) - 1 ELSE c.currentSlide - 1
    IN  [currentSlide |-> cs,
         allSlides    |-> slideMove(c.allSlides, cs),
         allDots      |-> activateDot(c.allDots, cs)]

HandleKeyNotLeft(c, key) ==
    IF key = "ArrowLeft" THEN previousSlide(c) ELSE nextSlide(c)

HandleKeyElse(c, key) ==
    IF key = "ArrowRight" THEN nextSlide(c) ELSE previousSlide(c)

\* two independent ifs: ArrowRight -> nextSlide(), ArrowLeft -> previousSlide()
handleKey(c, key) ==
    LET c1 == IF key = "ArrowRight" THEN nextSlide(c) ELSE c
    IN  IF key = "ArrowLeft" THEN previousSlide(c1) ELSE c1

DotClickDefaultsToFirst(c, target) ==
    LET cs == IF target \in DOMAIN c.allDots THEN Number(c.allDots[target].slide) ELSE 0
    IN  [currentSlide |-> cs,
         allSlides    |-> slideMove(c.allSlides, cs),
         allDots      |-> activateDot(c.allDots, cs)]

DotClickNoRender(c, target) ==
    IF target \in DOMAIN c.allDots
    THEN LET cs == Number(c.allDots[target].slide)
         IN  [currentSlide |-> cs,
              allSlides    |-> c.allSlides,
              allDots      |-> activateDot(c.allDots, cs)]
    ELSE c

\* click listener of .dots: target is a dot (its position in allDots) or 0
\* for the container itself, which has no dots__dot class
dotContainerClick(c, target) ==
    IF target \in DOMAIN c.allDots
    THEN LET cs == Number(c.allDots[target].slide)
         IN  [currentSlide |-> cs,
              allSlides    |-> slideMove(c.allSlides, cs),
              allDots      |-> activateDot(c.allDots, cs)]
    ELSE c

\* ------------------------------------------- document keydown listeners
AddEventListenerStack(listeners, fn) == Append(listeners, fn)

\* document.addEventListener('keydown', fn): appended unless the same
\* function is already registered for the type
addEventListener(listeners, fn) ==
    IF \E i \in DOMAIN listeners : listeners[i] = fn THEN listeners
    ELSE Append(listeners, fn)

RemoveEventListenerOther(listeners, fn) == listeners

\* document.removeEventListener('keydown', fn): no effect when not registered
removeEventListener(listeners, fn) ==
    SelectSeq(listeners, LAMBDA l : l # fn)

SliderViewInverted(listeners, entries) ==
    LET entry == entries[1]
    IN  IF ~entry.isIntersecting THEN addEventListener(listeners, "handleKey")
        ELSE removeEventListener(listeners, "handleKey")

\* const [entry] = entries: only the first entry of the batch is looked at
sliderView(listeners, entries) ==
    LET entry == entries[1]
    IN  IF entry.isIntersecting THEN addEventListener(listeners, "handleKey")
        ELSE removeEventListener(listeners, "handleKey")

\* a keydown event on the document calls every registered listener in order
RECURSIVE DispatchKeydown(_, _, _)
DispatchKeydown(listeners, c, key) ==
    IF listeners = << >> THEN c
    ELSE DispatchKeydown(Tail(listeners),
                         IF Head(listeners) = "handleKey" THEN handleKey(c, key) ELSE c,
                         key)

\* ---------------------------------------------------------------- modal
\* the modal part of the page, as the value the handlers transform
Modal == [showModalHidden  |-> showModalHidden,
          overlayHidden    |-> overlayHidden,
          bodyOverflow     |-> bodyOverflow,
          previousOverflow |-> previousOverflow]

\* the keywords the overflow property accepts, and the empty string that
\* removes the inline declaration
OverflowValues == {"", "visible", "hidden", "clip", "scroll", "auto"}

\* document.body.style.overflow = value: a value the property does not
\* accept (the text of undefined) leaves the declaration as it was
SetOverflow(current, value) ==
    IF value \in OverflowValues THEN value ELSE current

OpenModalNoSave(m) ==
    [m EXCEPT !.showModalHidden = FALSE,
              !.overlayHidden = FALSE,
              !.bodyOverflow = SetOverflow(m.bodyOverflow, "hidden")]

\* save body overflow, show modal and overlay, lock the scroll
openModal(m) ==
    [previousOverflow |-> m.bodyOverflow,
     showModalHidden  |-> FALSE,
     overlayHidden    |-> FALSE,
     bodyOverflow     |-> SetOverflow(m.bodyOverflow, "hidden")]

CloseModalKeepOverlay(m) ==
    [m EXCEPT !.showModalHidden = TRUE,
              !.bodyOverflow = SetOverflow(m.bodyOverflow, m.previousOverflow)]

\* hide modal and overlay, assign the saved overflow back
closeModal(m) ==
    [m EXCEPT !.showModalHidden = TRUE,
              !.overlayHidden = TRUE,
              !.bodyOverflow = SetOverflow(m.bodyOverflow, m.previousOverflow)]

EscapeKeydownInverted(m, key) ==
    IF key = "Escape" /\ m.showModalHidden THEN closeModal(m) ELSE m

\* the arrow function registered on document for 'keydown' (part_001:492)
escapeKeydown(m, key) ==
    IF key = "Escape" /\ ~m.showModalHidden THEN closeModal(m) ELSE m

\* the same keydown event, seen from the modal: every registered listener
\* is called in order
RECURSIVE DispatchKeydownModal(_, _, _)
DispatchKeydownModal(listeners, m, key) ==
    IF listeners = << >> THEN m
    ELSE DispatchKeydownModal(Tail(listeners),
                              IF Head(listeners) = "escape" THEN escapeKeydown(m, key) ELSE m,
                              key)

\* ----------------------------------------------------------------- tabs
\* the tab part of the page
Tabs == [operationsTabs |-> operationsTabs, operationsContents |-> operationsContents]

\* elements a click inside .operations__tab-container can land on: the
\* container, a tab button, or the <span> inside a tab button
TabTargets(tabs) ==
    {<<"container", 0>>} \cup {<<"tab", i>> : i \in DOMAIN tabs}
                        \cup {<<"span", i>> : i \in DOMAIN tabs}

\* parentElement; the container sits in a section, the section in the body
ParentElement(el) ==
    CASE el[1] = "span"      -> <<"tab", el[2]>>
      [] el[1] = "tab"       -> <<"container", 0>>
      [] el[1] = "container" -> <<"section", 0>>
      [] el[1] = "section"   -> <<"body", 0>>
      [] OTHER               -> <<"null", 0>>

\* the classes the selectors of the handlers look at
ClassList(el) ==
    CASE el[1] = "tab"       -> {"btn", "operations__tab"}
      [] el[1] = "container" -> {"operations__tab-container"}
      [] OTHER               -> {}

\* element.closest('.cls'): the element itself or its nearest ancestor
\* carrying the class, null when there is none
RECURSIVE Closest(_, _)
Closest(el, cls) ==
    IF el[1] = "null" THEN el
    ELSE IF cls \in ClassList(el) THEN el
    ELSE Closest(ParentElement(el), cls)

\* what both handlers do once they hold the clicked tab button: clear all
\* tabs, activate the clicked one, clear all panels, activate the first
\* panel of class operations__content--<data-tab>; with no such panel the
\* classList access throws after the clearing
ActivateTab(t, clicked) ==
    LET tabs == [i \in DOMAIN t.operationsTabs |->
                    [t.operationsTabs[i] EXCEPT !.active = (i = clicked[2])]]
        cleared == [j \in DOMAIN t.operationsContents |->
                    [t.operationsContents[j] EXCEPT !.active = FALSE]]
        matches == {j \in DOMAIN cleared : cleared[j].num = tabs[clicked[2]].tab}
    IN  [operationsTabs |-> tabs,
         operationsContents |->
             IF matches = {} THEN cleared
             ELSE [cleared EXCEPT ![Min(matches)].active = TRUE]]

SwitchTabNoClosest(t, target) ==
    IF target[1] # "tab" THEN t ELSE ActivateTab(t, target)

\* switchTab of part_001 (and the handler of part_000): closest('.operations__tab')
switchTab(t, target) ==
    LET clicked == Closest(target, "operations__tab")
    IN  IF clicked[1] = "null" THEN t ELSE ActivateTab(t, clicked)

\* the handler of script.js: closest('.btn'), and not the container itself
switchTabBtn(t, target) ==
    LET clicked == Closest(target, "btn")
    IN  IF clicked[1] # "null" /\ clicked # <<"container", 0>>
        THEN ActivateTab(t, clicked) ELSE t

\* ------------------------------------------------------------ observers
StickyNavLatch(sticky, entries) ==
    LET entry == entries[1]
    IN  IF ~entry.isIntersecting THEN TRUE ELSE sticky

\* stickyNav: only the first entry is looked at
stickyNav(sticky, entries) ==
    LET entry == entries[1]
    IN  IF ~entry.isIntersecting THEN TRUE ELSE FALSE

RECURSIVE RevealSectionFollow(_, _)
RevealSectionFollow(sections, entries) ==
    IF entries = << >> THEN sections
    ELSE LET entry == Head(entries)
         IN  RevealSectionFollow(
                 IF ~entry.isIntersecting
                 THEN [sections EXCEPT ![entry.target].hidden = TRUE]
                 ELSE [sections EXCEPT ![entry.target].hidden = FALSE,
                                       ![entry.target].observed = FALSE],
                 Tail(entries))

\* revealSection: every intersecting entry reveals its target and
\* unobserves it
RECURSIVE revealSection(_, _)
revealSection(sections, entries) ==
    IF entries = << >> THEN sections
    ELSE LET entry == Head(entries)
         IN  revealSection(
                 IF ~entry.isIntersecting THEN sections
                 ELSE [sections EXCEPT ![entry.target].hidden = FALSE,
                                       ![entry.target].observed = FALSE],
                 Tail(entries))

RECURSIVE ImageObserverEager(_, _)
ImageObserverEager(images, entries) ==
    IF entries = << >> THEN images
    ELSE LET entry == Head(entries)
         IN  ImageObserverEager(
                 IF ~entry.isIntersecting THEN images
                 ELSE [images EXCEPT ![entry.target].src = "data-src",
                                     ![entry.target].loading = TRUE,
                                     ![entry.target].lazyImg = FALSE,
                                     ![entry.target].observed = FALSE],
                 Tail(entries))

\* imageObserver: every intersecting entry assigns data-src to src (which
\* starts a load), adds a once-only load listener and unobserves the image
RECURSIVE imageObserver(_, _)
imageObserver(images, entries) ==
    IF entries = << >> THEN images
    ELSE LET entry == Head(entries)
         IN  imageObserver(
                 IF ~entry.isIntersecting THEN images
                 ELSE [images EXCEPT ![entry.target].src = "data-src",
                                     ![entry.target].loading = TRUE,
                                     ![entry.target].loadListeners = @ + 1,
                                     ![entry.target].observed = FALSE],
                 Tail(entries))

\* the load event of an image: every once-only listener runs, removes the
\* class lazy-img and is dropped
imageLoad(img) ==
    [img EXCEPT !.loading = FALSE,
                !.lazyImg = IF img.loadListeners > 0 THEN FALSE ELSE @,
                !.loadListeners = 0]

\* ------------------------------------------------------------- history
Snapshot == [currentSlide     |-> currentSlide,
             allSlides        |-> allSlides,
             allDots          |-> allDots,
             keydownListeners |-> keydownListeners,
             modal            |-> Modal,
             tabs             |-> Tabs,
             navSticky        |-> navSticky,
             allSections      |-> allSections,
             allImages        |-> allImages]

\* the window slides: it records, and never restricts, what the page does
Remember(ev) ==
    LET h == Append(hist, [ev |-> ev, pre |-> Snapshot])
    IN  IF Len(h) > tracing THEN Tail(h) ELSE h

\* the event joins the window when the history is kept
Trace(ev) == hist' = IF tracing > 0 THEN Remember(ev) ELSE hist

Attached(listeners) == \E i \in DOMAIN listeners : listeners[i] = "handleKey"

\* one more nextSlide() call in a row; a run is restarted once it is N long
RunNext ==
    IF tracing = 0 THEN UNCHANGED <<nextRun, runStart>>
    ELSE IF nextRun >= Len(allSlides)
    THEN nextRun' = 1 /\ runStart' = currentSlide
    ELSE nextRun' = nextRun + 1 /\ runStart' = runStart

\* any other change of the index ends the run
RunReset ==
    IF tracing = 0 THEN UNCHANGED <<nextRun, runStart>>
    ELSE nextRun' = 0 /\ runStart' = currentSlide'

\* activateDot found no dot tagged with the index of c and threw
DotMissing(c) ==
    ~\E i \in DOMAIN c.allDots : c.allDots[i].slide = TemplateIndex(c.currentSlide)

\* ---------------------------------------------------------------- Init
\* the state once the script has run with n slides: slideMove(0),
\* createDots(), activateDot(0), every section hidden and observed, every
\* image observed, the Escape listener registered, nothing saved yet in
\* previousOverflow; the markup shows neither modal nor overlay
SetupWith(n, overflow, selector, tabs, contents, trace, sections, images) ==
    LET slides == [i \in 1..n |-> [transform |-> 0]]
    IN  /\ currentSlide = 0
        /\ allSlides = slideMove(slides, 0)
        /\ allDots = activateDot(createDots(slides), 0)
        /\ keydownListeners = <<"escape">>
        /\ showModalHidden = TRUE
        /\ overlayHidden = TRUE
        /\ bodyOverflow = overflow
        /\ previousOverflow = "undefined"
        /\ delegation = selector
        /\ operationsTabs = tabs
        /\ operationsContents = contents
        /\ navSticky = FALSE
        /\ allSections = [i \in 1..sections |-> [hidden |-> TRUE, observed |-> TRUE]]
        /\ allImages = [i \in 1..images |->
                           [src |-> "placeholder", lazyImg |-> TRUE, observed |-> TRUE,
                            loading |-> TRUE, loadListeners |-> 0]]
        /\ uncaught = FALSE
        /\ hist = << >>
        /\ lastEntries = << >>
        /\ nextRun = 0
        /\ runStart = 0
        /\ tracing = trace
        /\ overflow0 = overflow
        /\ everIntersecting = FALSE

\* the same with as many sections and images as the page has
Setup(n, overflow, selector, tabs, contents, trace) ==
    SetupWith(n, overflow, selector, tabs, contents, trace, MaxSections, MaxImages)

\* k tab buttons tagged 1..k and k panels operations__content--1..k, the
\* ones in `on` active
TabMarkup(k, on) == [i \in 1..k |-> [tab |-> ToString(i), active |-> i \in on]]
ContentMarkup(k, on) == [i \in 1..k |-> [num |-> ToString(i), active |-> i \in on]]

\* the page as the slider sees it: any number of slides
Init ==
    \E n \in 1..MaxSlides :
        Setup(n, "", "operations__tab",
              TabMarkup(MaxTabs, {1}), ContentMarkup(MaxTabs, {1}), 2)

\* the page as the modal sees it: any inline overflow on the body
InitModal ==
    \E overflow \in {"", "scroll", "auto"} :
        Setup(MaxSlides, overflow, "operations__tab",
              TabMarkup(MaxTabs, {1}), ContentMarkup(MaxTabs, {1}), 2)

\* the page as the tabs see it: either script, any number of tabs, any
\* active classes in the markup
InitTabs ==
    \E selector \in {"operations__tab", "btn"}, k \in 1..MaxTabs :
        \E onTabs \in SUBSET (1..k), onContents \in SUBSET (1..k) :
            Setup(MaxSlides, "", selector,
                  TabMarkup(k, onTabs), ContentMarkup(k, onContents), 2)

\* the whole page, without history
InitPage ==
    Setup(MaxSlides, "", "operations__tab",
          TabMarkup(MaxTabs, {1}), ContentMarkup(MaxTabs, {1}), 0)

\* the page as the section observer sees it: any number of sections
InitSections ==
    \E sections \in 1..MaxTargets :
        SetupWith(MaxSlides, "", "operations__tab",
                  TabMarkup(MaxTabs, {1}), ContentMarkup(MaxTabs, {1}), 2,
                  sections, MaxImages)

\* the page as the image observer sees it: any number of lazy images
InitImages ==
    \E images \in 1..MaxTargets :
        SetupWith(MaxSlides, "", "operations__tab",
                  TabMarkup(MaxTabs, {1}), ContentMarkup(MaxTabs, {1}), 1,
                  MaxSections, images)

SetCarousel(c) ==
    /\ currentSlide' = c.currentSlide
    /\ allSlides' = c.allSlides
    /\ allDots' = c.allDots

SetModal(m) ==
    /\ showModalHidden' = m.showModalHidden
    /\ overlayHidden' = m.overlayHidden
    /\ bodyOverflow' = m.bodyOverflow
    /\ previousOverflow' = m.previousOverflow

\* -------------------------------------------------------------- actions
RightBtnClickGated ==
    /\ SetCarousel(IF Attached(keydownListeners) THEN nextSlide(Carousel) ELSE Carousel)
    /\ uncaught' = FALSE
    /\ Trace([type |-> "right"])
    /\ RunReset
    /\ UNCHANGED <<keydownListeners, lastEntries, modalVars, tabVars, watchVars,
                   tracing, overflow0, everIntersecting>>

\* rightBtn click -> nextSlide
RightBtnClick ==
    /\ SetCarousel(nextSlide(Carousel))
    /\ uncaught' = DotMissing(nextSlide(Carousel))
    /\ Trace([type |-> "right"])
    /\ RunNext
    /\ UNCHANGED <<keydownListeners, lastEntries, modalVars, tabVars, watchVars,
                   tracing, overflow0, everIntersecting>>

\* leftBtn click -> previousSlide
LeftBtnClick ==
    /\ SetCarousel(previousSlide(Carousel))
    /\ uncaught' = DotMissing(previousSlide(Carousel))
    /\ Trace([type |-> "left"])
    /\ RunReset
    /\ UNCHANGED <<keydownListeners, lastEntries, modalVars, tabVars, watchVars,
                   tracing, overflow0, everIntersecting>>

\* click inside .dots: on dot number target, or on the strip itself (0)
DotClickOn(target) ==
    /\ SetCarousel(dotContainerClick(Carousel, target))
    /\ uncaught' = (target # 0 /\ DotMissing(dotContainerClick(Carousel, target)))
    /\ Trace([type |-> "dots", target |-> target])
    /\ IF target = 0 THEN UNCHANGED <<nextRun, runStart>> ELSE RunReset
    /\ UNCHANGED <<keydownListeners, lastEntries, modalVars, tabVars, watchVars,
                   tracing, overflow0, everIntersecting>>

DotContainerClick == \E target \in 0..Len(allDots) : DotClickOn(target)

Entries ==
    UNION {[1..k -> [isIntersecting : BOOLEAN]] : k \in 1..MaxEntries}

\* sliderObserver delivers a batch of entries for .slider
SliderVisibility ==
    /\ UNCHANGED <<slideVars, runVars, modalVars, tabVars, watchVars,
                   tracing, overflow0>>
    /\ \E entries \in Entries :
        /\ keydownListeners' = sliderView(keydownListeners, entries)
        /\ uncaught' = FALSE
        /\ lastEntries' = IF tracing > 0 THEN entries ELSE lastEntries
        /\ everIntersecting' =
               (everIntersecting
                  \/ (tracing > 0 /\ \E i \in DOMAIN entries : entries[i].isIntersecting))
        /\ Trace([type |-> "visibility", entries |-> entries])

\* a keydown event reaches the document: handleKey (when attached) and the
\* Escape listener of the modal both see it
KeyPress(key) ==
    /\ SetCarousel(DispatchKeydown(keydownListeners, Carousel, key))
    /\ SetModal(DispatchKeydownModal(keydownListeners, Modal, key))
    /\ uncaught' = (/\ Attached(keydownListeners)
                    /\ key \in {"ArrowRight", "ArrowLeft"}
                    /\ DotMissing(DispatchKeydown(keydownListeners, Carousel, key)))
    /\ Trace([type |-> "key", key |-> key])
    /\ IF ~Attached(keydownListeners) \/ key \notin {"ArrowRight", "ArrowLeft"}
       THEN UNCHANGED <<nextRun, runStart>>
       ELSE IF key = "ArrowRight" THEN RunNext ELSE RunReset
    /\ UNCHANGED <<keydownListeners, lastEntries, tabVars, watchVars,
                   tracing, overflow0, everIntersecting>>

KeyDown == \E key \in Keys : KeyPress(key)

\* click on one of the .btn--show-modal buttons -> openModal
OpenModalClick ==
    /\ SetModal(openModal(Modal))
    /\ uncaught' = FALSE
    /\ Trace([type |-> "open"])
    /\ UNCHANGED <<slideVars, keydownListeners, tabVars, watchVars, runVars,
                   lastEntries, tracing, overflow0, everIntersecting>>

\* click on .btn--close-modal -> closeModal
CloseBtnClick ==
    /\ SetModal(closeModal(Modal))
    /\ uncaught' = FALSE
    /\ Trace([type |-> "close"])
    /\ UNCHANGED <<slideVars, keydownListeners, tabVars, watchVars, runVars,
                   lastEntries, tracing, overflow0, everIntersecting>>

\* click on .overlay -> closeModal
OverlayClick ==
    /\ SetModal(closeModal(Modal))
    /\ uncaught' = FALSE
    /\ Trace([type |-> "overlay"])
    /\ UNCHANGED <<slideVars, keydownListeners, tabVars, watchVars, runVars,
                   lastEntries, tracing, overflow0, everIntersecting>>

\* click inside .operations__tab-container, handled by the script in use
TabContainerClick ==
    \E target \in TabTargets(operationsTabs) :
        LET t == IF delegation = "btn" THEN switchTabBtn(Tabs, target)
                 ELSE switchTab(Tabs, target)
        IN  /\ operationsTabs' = t.operationsTabs
            /\ operationsContents' = t.operationsContents
            /\ uncaught' = (t # Tabs /\ \A j \in DOMAIN t.operationsContents :
                                            ~t.operationsContents[j].active)
            /\ Trace([type |-> "tabs", target |-> target])
            /\ UNCHANGED <<slideVars, keydownListeners, modalVars, delegation,
                           watchVars, runVars, lastEntries, tracing, overflow0,
                           everIntersecting>>

\* headerObserver delivers a batch of entries for .header
HeaderVisibility ==
    /\ UNCHANGED <<slideVars, keydownListeners, modalVars, tabVars,
                   allSections, allImages, runVars, lastEntries, tracing,
                   overflow0, everIntersecting>>
    /\ \E entries \in Entries :
        /\ navSticky' = stickyNav(navSticky, entries)
        /\ uncaught' = FALSE
        /\ Trace([type |-> "header", entries |-> entries])

\* batches an observer of several targets can deliver: entries of targets
\* it was observing when they were queued
TargetEntries(targets) ==
    UNION {[1..k -> [target : targets, isIntersecting : BOOLEAN]] : k \in 1..MaxEntries}

Observed(elements) == {i \in DOMAIN elements : elements[i].observed}

\* sectionObserver delivers a batch of entries
SectionVisibility ==
    /\ UNCHANGED <<slideVars, keydownListeners, modalVars, tabVars,
                   navSticky, allImages, runVars, lastEntries, tracing,
                   overflow0, everIntersecting>>
    /\ \E entries \in TargetEntries(Observed(allSections)) :
        /\ allSections' = revealSection(allSections, entries)
        /\ uncaught' = FALSE
        /\ Trace([type |-> "sections", entries |-> entries])

\* imgObserver delivers a batch of entries
ImageVisibility ==
    /\ UNCHANGED <<slideVars, keydownListeners, modalVars, tabVars,
                   navSticky, allSections, runVars, lastEntries, tracing,
                   overflow0, everIntersecting>>
    /\ \E entries \in TargetEntries(Observed(allImages)) :
        /\ allImages' = imageObserver(allImages, entries)
        /\ uncaught' = FALSE
        /\ Trace([type |-> "images", entries |-> entries])

\* an image finishes loading its current source
ImageLoad ==
    \E i \in DOMAIN allImages :
        /\ allImages[i].loading
        /\ allImages' = [allImages EXCEPT ![i] = imageLoad(allImages[i])]
        /\ uncaught' = FALSE
        /\ Trace([type |-> "load", target |-> i])
        /\ UNCHANGED <<slideVars, keydownListeners, modalVars, tabVars,
                       navSticky, allSections, runVars, lastEntries, tracing,
                       overflow0, everIntersecting>>

\* an observer callback invoked with no entry at all: const [entry] = []
\* leaves entry undefined and reading entry.isIntersecting throws, before
\* sliderView or stickyNav has touched anything
MalformedCallback ==
    \E observer \in {"slider", "header"} :
        /\ uncaught' = TRUE
        /\ Trace([type |-> "malformed", observer |-> observer])
        /\ UNCHANGED <<slideVars, keydownListeners, modalVars, tabVars, watchVars,
                       runVars, lastEntries, tracing, overflow0, everIntersecting>>

\* the slider and its keyboard gate
Next ==
    \/ RightBtnClick
    \/ LeftBtnClick
    \/ DotContainerClick
    \/ SliderVisibility
    \/ KeyDown

Spec == Init /\ [][Next]_vars

\* the modal and the keys
NextModal ==
    \/ OpenModalClick
    \/ CloseBtnClick
    \/ OverlayClick
    \/ KeyDown

SpecModal == InitModal /\ [][NextModal]_vars

\* the operations tabs
NextTabs == TabContainerClick

SpecTabs == InitTabs /\ [][NextTabs]_vars

\* the observers of slider and header, with callbacks that carry no entry
NextMalformed ==
    \/ SliderVisibility
    \/ HeaderVisibility
    \/ MalformedCallback

SpecMalformed == Init /\ [][NextMalformed]_vars

\* every listener of the page
NextPage ==
    \/ RightBtnClick
    \/ LeftBtnClick
    \/ DotContainerClick
    \/ SliderVisibility
    \/ KeyDown
    \/ OpenModalClick
    \/ CloseBtnClick
    \/ OverlayClick
    \/ TabContainerClick
    \/ HeaderVisibility
    \/ SectionVisibility
    \/ ImageVisibility
    \/ ImageLoad

SpecPage == InitPage /\ [][NextPage]_vars

\* the observer that reveals the sections
NextSections == SectionVisibility

SpecSections == InitSections /\ [][NextSections]_vars

\* the lazy images: their observer and their load events
NextImages ==
    \/ ImageVisibility
    \/ ImageLoad

SpecImages == InitImages /\ [][NextImages]_vars

\* ------------------------------------------- vocabulary of the properties
N == Len(allSlides)

\* the k-th latest event of the window: Ev(0) is the latest
Ev(k) == hist[Len(hist) - k]

CarouselOf(snap) == [currentSlide |-> snap.currentSlide,
                     allSlides    |-> snap.allSlides,
                     allDots      |-> snap.allDots]

IsKey(h, key) == h.ev.type = "key" /\ h.ev.key = key

\* a callback that delivers the single entry `flag`
IsCrossing(h, flag) ==
    /\ h.ev.type = "visibility"
    /\ Len(h.ev.entries) = 1
    /\ h.ev.entries[1].isIntersecting = flag

\* the latest callback of the slider observer delivered the single entry `flag`
LatestCallbackIs(flag) ==
    Len(lastEntries) = 1 /\ lastEntries[1].isIntersecting = flag

IsEnter(h) == IsCrossing(h, TRUE)
IsExit(h) == IsCrossing(h, FALSE)

ActiveDots == {i \in DOMAIN allDots : allDots[i].active}

\* dot number k (0-based) is active and no other dot is
OnlyActive(k) == \A i \in DOMAIN allDots : allDots[i].active <=> (i = k + 1)

\* every slide sits at 100 * (position - k) percent
Rendered(k) == \A i \in DOMAIN allSlides : allSlides[i].transform = 100 * ((i - 1) - k)

HandleKeyCount ==
    Cardinality({i \in DOMAIN keydownListeners : keydownListeners[i] = "handleKey"})

\* ---------------------------------------------------------------- C1
\* C1: in every reachable state currentSlide is an integer in [0, N-1],
\* whatever sequence of next, previous and dot-click events led there.
C1_IndexInRange == currentSlide \in 0..(N - 1)

\* a next that wrapped from the last slide, right after a previous that
\* wrapped from the first
C1_Witness ==
    /\ Len(hist) >= 2
    /\ N >= 2
    /\ Ev(1).ev.type = "left" /\ Ev(1).pre.currentSlide = 0
    /\ Ev(0).ev.type = "right" /\ Ev(0).pre.currentSlide = N - 1
    /\ currentSlide = 0

\* ---------------------------------------------------------------- C2
\* C2: in every state from the end of initialization on, exactly one dot
\* is active and the data-slide of that dot is currentSlide.
C2_OneActiveDot ==
    /\ Cardinality(ActiveDots) = 1
    /\ \A i \in ActiveDots : Number(allDots[i].slide) = currentSlide

\* a dot click that moved the active flag to another dot
C2_Witness ==
    /\ Len(hist) >= 1
    /\ Ev(0).ev.type = "dots"
    /\ Ev(0).ev.target >= 1
    /\ Ev(0).pre.currentSlide # Ev(0).ev.target - 1
    /\ allDots[Ev(0).ev.target].active
    /\ ~Ev(0).pre.allDots[Ev(0).ev.target].active

\* ---------------------------------------------------------------- C3
\* C3: nextSlide() leaves currentSlide = (i + 1) mod N and previousSlide()
\* leaves currentSlide = (i - 1 + N) mod N, i being the index before the
\* call; so next wraps N-1 to 0 and previous wraps 0 to N-1.
C3_ModularStep ==
    Len(hist) >= 1 =>
        /\ Ev(0).ev.type = "right" =>
               currentSlide = (Ev(0).pre.currentSlide + 1) % N
        /\ Ev(0).ev.type = "left" =>
               currentSlide = (Ev(0).pre.currentSlide - 1 + N) % N

\* the end of the N = 4 scenario: next wrapped 3 -> 0, previous wrapped 0 -> 3
C3_Witness ==
    /\ Len(hist) >= 2
    /\ N = 4
    /\ Ev(1).ev.type = "right" /\ Ev(1).pre.currentSlide = 3
    /\ Ev(0).ev.type = "left" /\ Ev(0).pre.currentSlide = 0
    /\ currentSlide = 3

\* ---------------------------------------------------------------- C4
\* C4: nextSlide() followed by previousSlide() restores the index, the
\* slide offsets and the active dot that were there before the two calls.
C4_PreviousUndoesNext ==
    (Len(hist) >= 2 /\ Ev(1).ev.type = "right" /\ Ev(0).ev.type = "left") =>
        Carousel = CarouselOf(Ev(1).pre)

\* next from the last slide (wrapping), then previous
C4_Witness ==
    /\ Len(hist) >= 2
    /\ N >= 2
    /\ Ev(1).ev.type = "right" /\ Ev(1).pre.currentSlide = N - 1
    /\ Ev(0).ev.type = "left"
    /\ currentSlide = N - 1

\* ---------------------------------------------------------------- C5
\* C5: N nextSlide() calls in a row bring currentSlide back to the index
\* the run started from, and a run of fewer than N calls never does.
C5_Cycle ==
    /\ nextRun = N => currentSlide = runStart
    /\ (0 < nextRun /\ nextRun < N) => currentSlide # runStart

\* a full cycle of at least three calls that started away from slide 0
C5_Witness ==
    /\ N >= 3
    /\ nextRun = N
    /\ runStart >= 1
    /\ currentSlide = runStart

\* ---------------------------------------------------------------- C6
\* C6: a click on the dot tagged k sets currentSlide = k, puts every slide
\* at its offset for k and makes dot k the only active dot, whatever the
\* index was before.
C6_Goto ==
    (Len(hist) >= 1 /\ Ev(0).ev.type = "dots" /\ Ev(0).ev.target >= 1) =>
        LET k == Ev(0).ev.target - 1
        IN  /\ Ev(0).pre.allDots[Ev(0).ev.target].slide = TemplateIndex(k)
            /\ currentSlide = k
            /\ Rendered(k)
            /\ OnlyActive(k)

\* the scenario of the spec: N = 4, dot 2 clicked from index 0
C6_Witness ==
    /\ Len(hist) >= 1
    /\ N = 4
    /\ Ev(0).ev.type = "dots" /\ Ev(0).ev.target = 3
    /\ Ev(0).pre.currentSlide = 0
    /\ currentSlide = 2
    /\ allDots[3].active /\ ~allDots[1].active /\ ~allDots[2].active /\ ~allDots[4].active

\* ---------------------------------------------------------------- C7
\* C7: after a visibility-enter callback two ArrowRight presses advance
\* currentSlide by 2 (mod N); after a visibility-exit callback an ArrowRight
\* press leaves the index, the offsets and the dots unchanged.
C7_GateScenario ==
    /\ (Len(hist) >= 2 /\ LatestCallbackIs(TRUE)
          /\ IsKey(Ev(1), "ArrowRight") /\ IsKey(Ev(0), "ArrowRight")) =>
           currentSlide = (Ev(1).pre.currentSlide + 2) % N
    /\ (Len(hist) >= 2 /\ IsExit(Ev(1)) /\ IsKey(Ev(0), "ArrowRight")) =>
           Carousel = CarouselOf(Ev(0).pre)

\* the slider stood on slide 2 with the listener attached, then an exit
\* arrived, then an ArrowRight
C7_Witness ==
    /\ Len(hist) >= 2
    /\ N >= 3
    /\ IsExit(Ev(1))
    /\ Attached(Ev(1).pre.keydownListeners)
    /\ Ev(1).pre.currentSlide = 2
    /\ IsKey(Ev(0), "ArrowRight")
    /\ currentSlide = 2

\* ---------------------------------------------------------------- C8
\* C8: at most one handleKey listener is attached to the document; after
\* any number of enters in a row one ArrowRight press advances by exactly
\* one, and one exit leaves no handleKey listener attached.
C8_SingleListener ==
    /\ HandleKeyCount <= 1
    /\ (Len(hist) >= 2 /\ IsEnter(Ev(1)) /\ IsKey(Ev(0), "ArrowRight")) =>
           currentSlide = (Ev(0).pre.currentSlide + 1) % N
    /\ (Len(hist) >= 1 /\ IsExit(Ev(0))) => HandleKeyCount = 0

\* an enter that found the listener already attached, then one ArrowRight,
\* with enough slides to tell one step from two
C8_Witness ==
    /\ Len(hist) >= 2
    /\ N >= 3
    /\ IsEnter(Ev(1)) /\ Attached(Ev(1).pre.keydownListeners)
    /\ IsKey(Ev(0), "ArrowRight")
    /\ currentSlide = (Ev(0).pre.currentSlide + 1) % N

\* ---------------------------------------------------------------- C9
\* C9: the key listener is attached exactly when the latest visibility
\* callback (one entry per callback) reported intersecting, and is not
\* attached before the first callback; a key press that finds it detached
\* changes nothing of the slider.
C9_GateFollowsVisibility ==
    /\ lastEntries = << >> => HandleKeyCount = 0
    /\ LatestCallbackIs(TRUE) => HandleKeyCount >= 1
    /\ LatestCallbackIs(FALSE) => HandleKeyCount = 0
    /\ (Len(hist) >= 1 /\ Ev(0).ev.type = "key"
          /\ ~Attached(Ev(0).pre.keydownListeners)) =>
           Carousel = CarouselOf(Ev(0).pre)

\* the first two events of the page: an exit before any enter, then a key
C9_Witness ==
    /\ Len(hist) = 2
    /\ IsExit(Ev(1))
    /\ IsKey(Ev(0), "ArrowRight")
    /\ HandleKeyCount = 0
    /\ currentSlide = 0

\* --------------------------------------------------------------- C10
\* C10: with the key listener attached, ArrowRight does what next() does,
\* ArrowLeft does what previous() does, and any other key changes neither
\* the index, nor the offsets, nor the dots.
C10_KeyMapping ==
    (Len(hist) >= 1 /\ Ev(0).ev.type = "key"
       /\ Attached(Ev(0).pre.keydownListeners)) =>
        LET i == Ev(0).pre.currentSlide
            step == IF Ev(0).ev.key = "ArrowRight" THEN (i + 1) % N
                    ELSE (i - 1 + N) % N
        IN  IF Ev(0).ev.key \in {"ArrowRight", "ArrowLeft"}
            THEN currentSlide = step /\ Rendered(step) /\ OnlyActive(step)
            ELSE Carousel = CarouselOf(Ev(0).pre)

\* ArrowLeft moved the slider, then another key arrived with the listener
\* still attached
C10_Witness ==
    /\ Len(hist) >= 2
    /\ N >= 3
    /\ IsKey(Ev(1), "ArrowLeft")
    /\ Attached(Ev(1).pre.keydownListeners)
    /\ Ev(1).pre.currentSlide # Ev(0).pre.currentSlide
    /\ IsKey(Ev(0), "Escape")
    /\ Attached(Ev(0).pre.keydownListeners)
    /\ currentSlide = Ev(0).pre.currentSlide

\* --------------------------------------------------------------- C11
\* C11: whenever the modal is hidden the body's overflow is the value it
\* had before the modal was first opened, and while the modal is open it
\* is 'hidden'; for every sequence of open and close triggers, an open
\* trigger while already open included.
C11_SaveRestore ==
    /\ showModalHidden => bodyOverflow = overflow0
    /\ ~showModalHidden => bodyOverflow = "hidden"

\* --------------------------------------------------------------- C12
\* C12: after a click that lands on a tab button (or inside one) exactly
\* the clicked tab is active and exactly the panel numbered by its
\* data-tab is active; a click on the container outside every tab button
\* changes no tab and no panel; with either delegation selector.
ActiveTabs == {i \in DOMAIN operationsTabs : operationsTabs[i].active}
ActiveContents == {j \in DOMAIN operationsContents : operationsContents[j].active}

C12_TabSwitch ==
    (Len(hist) >= 1 /\ Ev(0).ev.type = "tabs") =>
        LET target == Ev(0).ev.target
        IN  IF target[1] \in {"tab", "span"}
            THEN /\ ActiveTabs = {target[2]}
                 /\ Cardinality(ActiveContents) = 1
                 /\ \A j \in ActiveContents :
                        operationsContents[j].num = operationsTabs[target[2]].tab
            ELSE Tabs = Ev(0).pre.tabs

\* the script.js variant, a click on the <span> of tab 2 while tab 1 and
\* panel 3 were the active ones
C12_Witness ==
    /\ Len(hist) >= 1
    /\ delegation = "btn"
    /\ Ev(0).ev.type = "tabs" /\ Ev(0).ev.target = <<"span", 2>>
    /\ Len(operationsTabs) = 3
    /\ Ev(0).pre.tabs.operationsTabs[1].active
    /\ Ev(0).pre.tabs.operationsContents[3].active
    /\ ActiveTabs = {2} /\ ActiveContents = {2}

\* --------------------------------------------------------------- C13
\* C13: after every slider operation each slide i is at 100 * (i -
\* currentSlide) percent, so exactly the slide at currentSlide is at 0 and
\* neighbouring slides are 100 apart.
C13_Render ==
    /\ Rendered(currentSlide)
    /\ {i \in DOMAIN allSlides : allSlides[i].transform = 0} = {currentSlide + 1}
    /\ \A i \in 1..(N - 1) : allSlides[i + 1].transform - allSlides[i].transform = 100

\* a dot click that moved the slider from slide 1 to the last of at least
\* three slides
C13_Witness ==
    /\ Len(hist) >= 1
    /\ N >= 3
    /\ Ev(0).ev.type = "dots" /\ Ev(0).ev.target = N
    /\ Ev(0).pre.currentSlide = 1
    /\ allSlides[1].transform = 0 - 100 * (N - 1)
    /\ allSlides[N].transform = 0

\* --------------------------------------------------------------- C14
\* C14: an observer callback delivered with no entry is taken as 'not
\* intersecting': the handler ends without an exception and, for the
\* slider gate, no handleKey listener is attached afterwards.
C14_MalformedIsExit ==
    (Len(hist) >= 1 /\ Ev(0).ev.type = "malformed") =>
        /\ ~uncaught
        /\ Ev(0).ev.observer = "slider" => HandleKeyCount = 0

\* --------------------------------------------------------------- C15
\* C15: visibility callbacks of every observer, image loads, clicks on the
\* background of the dot strip, keys other than ArrowLeft and ArrowRight,
\* tab clicks and the opening and closing of the modal leave currentSlide,
\* the slide offsets and the dots as they were.
OtherThanCarouselOp ==
    \/ SliderVisibility
    \/ HeaderVisibility
    \/ SectionVisibility
    \/ ImageVisibility
    \/ ImageLoad
    \/ DotClickOn(0)
    \/ \E key \in Keys \ {"ArrowLeft", "ArrowRight"} : KeyPress(key)
    \/ TabContainerClick
    \/ OpenModalClick
    \/ CloseBtnClick
    \/ OverlayClick

\* (a step of one of these events leaves the slider alone: either the
\* slider is unchanged or the step is none of them)
C15_CarouselFrame ==
    [][UNCHANGED slideVars \/ ~OtherThanCarouselOp]_vars

\* the slider stands on its last slide with the key listener attached,
\* while the modal is open, another tab is active, the nav is sticky and
\* the sections are revealed
C15_Witness ==
    /\ currentSlide = N - 1 /\ N >= 2
    /\ Attached(keydownListeners)
    /\ ~showModalHidden
    /\ ActiveTabs = {Len(operationsTabs)}
    /\ navSticky
    /\ \A i \in DOMAIN allSections : ~allSections[i].hidden

\* --------------------------------------------------------------- C16
\* C16: a click on the dot container that is not on a dot leaves
\* currentSlide, every slide offset and every dot unchanged.
C16_BackgroundClick ==
    (Len(hist) >= 1 /\ Ev(0).ev.type = "dots" /\ Ev(0).ev.target = 0) =>
        Carousel = CarouselOf(Ev(0).pre)

\* a background click while the slider stood away from the first slide
C16_Witness ==
    /\ Len(hist) >= 1
    /\ Ev(0).ev.type = "dots" /\ Ev(0).ev.target = 0
    /\ Ev(0).pre.currentSlide >= 1
    /\ currentSlide = Ev(0).pre.currentSlide

\* --------------------------------------------------------------- C17
\* C17: for every index k and every state of the dots, activateDot(k)
\* applied twice gives what it gives applied once, dot k alone active; and
\* a click on the dot of the current slide leaves the slider unchanged.
\* (activateDot depends on the tags of the dots, which are those of
\* createDots for good, on their flags and on k: all flags and all k are
\* tried on the strip of every slide count, as the script created it.)
DotStates ==
    {[i \in DOMAIN allDots |-> [allDots[i] EXCEPT !.active = f[i]]] :
        f \in [DOMAIN allDots -> BOOLEAN]}

C17_ActivateIdempotent ==
    /\ Len(hist) = 0 =>
           \A dots \in DotStates, k \in 0..(N - 1) :
               /\ activateDot(activateDot(dots, k), k) = activateDot(dots, k)
               /\ \A i \in DOMAIN dots : activateDot(dots, k)[i].active <=> (i = k + 1)
    /\ (Len(hist) >= 1 /\ Ev(0).ev.type = "dots"
          /\ Ev(0).ev.target = Ev(0).pre.currentSlide + 1) =>
           Carousel = CarouselOf(Ev(0).pre)

\* a click on the dot of the current slide, which is not the first one
C17_Witness ==
    /\ Len(hist) >= 1
    /\ N >= 2
    /\ Ev(0).ev.type = "dots"
    /\ Ev(0).pre.currentSlide >= 1
    /\ Ev(0).ev.target = Ev(0).pre.currentSlide + 1
    /\ allDots[Ev(0).ev.target].active

\* --------------------------------------------------------------- C18
\* C18: with a single slide every next() and previous() ends without an
\* exception and leaves currentSlide = 0, the slide at offset 0 and the
\* dot active.
C18_SingleSlide ==
    N = 1 =>
        /\ ~uncaught
        /\ currentSlide = 0
        /\ allSlides[1].transform = 0
        /\ allDots[1].active

\* one slide, after a next() and a previous()
C18_Witness ==
    /\ N = 1
    /\ Len(hist) >= 2
    /\ Ev(1).ev.type = "right"
    /\ Ev(0).ev.type = "left"
    /\ currentSlide = 0

\* --------------------------------------------------------------- C19
\* C19: when the script has run and no event has been handled yet,
\* currentSlide = 0, slide i is at 100 * i percent, there is one dot per
\* slide tagged 0..N-1, dot 0 alone is active; and no handleKey listener
\* is attached as long as no slider callback has reported intersecting.
C19_InitialState ==
    /\ Len(hist) = 0 =>
           /\ currentSlide = 0
           /\ \A i \in DOMAIN allSlides : allSlides[i].transform = 100 * (i - 1)
           /\ Len(allDots) = N
           /\ \A i \in DOMAIN allDots : allDots[i].slide = ToString(i - 1)
           /\ OnlyActive(0)
    /\ ~everIntersecting => HandleKeyCount = 0

\* the page right after the script has run, with at least three slides
C19_Witness ==
    /\ Len(hist) = 0
    /\ N >= 3
    /\ allSlides[3].transform = 200
    /\ allDots[3].slide = "2"
    /\ allDots[1].active
    /\ HandleKeyCount = 0

\* --------------------------------------------------------------- C20
\* C20: an Escape press while the modal is hidden changes neither the
\* modal, nor the overlay, nor the body's overflow; an Escape press while
\* it is open does what the close button and an overlay click do: modal
\* and overlay hidden, the saved overflow assigned back to the body.
C20_EscapeCloses ==
    Len(hist) >= 1 =>
        LET before == Ev(0).pre.modal
            closing == \/ Ev(0).ev.type \in {"close", "overlay"}
                       \/ (IsKey(Ev(0), "Escape") /\ ~before.showModalHidden)
        IN  /\ (IsKey(Ev(0), "Escape") /\ before.showModalHidden) => Modal = before
            /\ closing =>
                   /\ showModalHidden /\ overlayHidden
                   /\ previousOverflow = before.previousOverflow
                   /\ bodyOverflow = IF before.previousOverflow = "undefined"
                                     THEN before.bodyOverflow
                                     ELSE before.previousOverflow

\* the modal was opened over a body with overflow 'scroll' and Escape
\* closed it
C20_Witness ==
    /\ Len(hist) >= 2
    /\ Ev(1).ev.type = "open"
    /\ Ev(1).pre.modal.bodyOverflow = "scroll"
    /\ IsKey(Ev(0), "Escape")
    /\ ~Ev(0).pre.modal.showModalHidden
    /\ showModalHidden /\ overlayHidden
    /\ bodyOverflow = "scroll"

\* --------------------------------------------------------------- C21
\* C21: every section starts hidden and observed; a section callback
\* reveals and unobserves exactly the sections for which it carries an
\* intersecting entry, and leaves every other section as it was, so a
\* non-intersecting entry leaves its section hidden and observed; a
\* revealed section is unobserved and no later entry or event hides it
\* again or changes it.
IntersectingTargets(entries) ==
    {entries[j].target : j \in {k \in DOMAIN entries : entries[k].isIntersecting}}

C21_RevealOnce ==
    /\ Len(hist) = 0 =>
           \A i \in DOMAIN allSections : allSections[i].hidden /\ allSections[i].observed
    /\ \A i \in DOMAIN allSections : allSections[i].hidden <=> allSections[i].observed
    /\ Len(hist) >= 1 =>
           \A i \in DOMAIN allSections :
               LET before == Ev(0).pre.allSections[i]
                   revealing == /\ Ev(0).ev.type = "sections"
                                /\ i \in IntersectingTargets(Ev(0).ev.entries)
               IN  /\ ~before.hidden => allSections[i] = before
                   /\ (before.hidden /\ revealing) =>
                          ~allSections[i].hidden /\ ~allSections[i].observed
                   /\ (before.hidden /\ ~revealing) => allSections[i] = before

\* one callback told the first section intersecting and then not
\* intersecting any more, and the second section not intersecting: the
\* first is revealed for good, the second still hidden and observed
C21_Witness ==
    /\ Len(hist) >= 1
    /\ Len(allSections) >= 2
    /\ Ev(0).ev.type = "sections"
    /\ Ev(0).pre.allSections[1].hidden
    /\ \E a, b \in DOMAIN Ev(0).ev.entries :
           /\ a < b
           /\ Ev(0).ev.entries[a] = [target |-> 1, isIntersecting |-> TRUE]
           /\ Ev(0).ev.entries[b].target \in {1, 2}
           /\ ~Ev(0).ev.entries[b].isIntersecting
    /\ ~allSections[1].hidden /\ ~allSections[1].observed
    /\ allSections[2].hidden /\ allSections[2].observed

\* --------------------------------------------------------------- C22
\* C22: an image carries its high-resolution source exactly when it is no
\* longer observed: an image callback assigns the source to, and
\* unobserves, exactly the images for which it carries an intersecting
\* entry, and leaves every blur class in place; the blur class of an image
\* goes only at a load event of that image which comes after the source
\* was assigned, and never comes back; an image that has not intersected
\* keeps its placeholder source and its blur class, also when the
\* placeholder finishes loading.
C22_LazyOrder ==
    /\ \A i \in DOMAIN allImages :
           /\ (allImages[i].src = "data-src") <=> ~allImages[i].observed
           /\ allImages[i].src = "placeholder" =>
                  allImages[i].lazyImg /\ allImages[i].loadListeners = 0
           /\ ~allImages[i].lazyImg =>
                  ~allImages[i].loading /\ allImages[i].loadListeners = 0
    /\ Len(hist) >= 1 =>
           \A i \in DOMAIN allImages :
               LET before == Ev(0).pre.allImages[i]
                   assigning == /\ Ev(0).ev.type = "images"
                                /\ i \in IntersectingTargets(Ev(0).ev.entries)
               IN  /\ (allImages[i].src # before.src) <=>
                          (assigning /\ before.src = "placeholder")
                   /\ assigning => allImages[i].loading /\ allImages[i].loadListeners >= 1
                   /\ (allImages[i].lazyImg # before.lazyImg) =>
                          /\ Ev(0).ev.type = "load" /\ Ev(0).ev.target = i
                          /\ before.src = "data-src" /\ before.loadListeners >= 1
                          /\ before.lazyImg /\ ~allImages[i].lazyImg
                   /\ ~before.lazyImg => allImages[i] = before

\* the first image intersected and has finished loading, so its blur is
\* gone; the second never intersected, its placeholder has loaded, and it
\* keeps the placeholder and the blur
C22_Witness ==
    /\ Len(hist) >= 1
    /\ Len(allImages) >= 2
    /\ Ev(0).ev.type = "load" /\ Ev(0).ev.target = 1
    /\ Ev(0).pre.allImages[1].src = "data-src"
    /\ Ev(0).pre.allImages[1].lazyImg /\ Ev(0).pre.allImages[1].loadListeners >= 1
    /\ ~allImages[1].lazyImg /\ ~allImages[1].observed
    /\ allImages[2].src = "placeholder" /\ allImages[2].lazyImg /\ allImages[2].observed
    /\ ~allImages[2].loading

\* --------------------------------------------------------------- C23
\* C23: after every header callback (one entry per callback) the nav is
\* sticky exactly when that entry reported the header as not intersecting,
\* whatever the nav was before; a callback that repeats the value of the
\* callback before it changes nothing of the page.
IsHeader(h, flag) ==
    /\ h.ev.type = "header"
    /\ Len(h.ev.entries) = 1
    /\ h.ev.entries[1].isIntersecting = flag

C23_StickyFollowsHeader ==
    /\ Len(hist) = 0 => ~navSticky
    /\ \A flag \in BOOLEAN :
           /\ (Len(hist) >= 1 /\ IsHeader(Ev(0), flag)) => (navSticky <=> ~flag)
           /\ (Len(hist) >= 2 /\ IsHeader(Ev(1), flag) /\ IsHeader(Ev(0), flag)) =>
                  Snapshot = Ev(0).pre

\* the header came back into view while the nav was sticky, and the same
\* callback arrived once more: the nav stays released
C23_Witness ==
    /\ Len(hist) >= 2
    /\ IsHeader(Ev(1), TRUE) /\ Ev(1).pre.navSticky
    /\ IsHeader(Ev(0), TRUE) /\ ~Ev(0).pre.navSticky
    /\ ~navSticky

\* --------------------------------------------------------------- C24
\* C24: in every state reachable by open-trigger clicks, close-button
\* clicks, overlay clicks and key presses, the modal carries the class
\* 'hidden' exactly when the overlay carries it.
C24_ModalWithOverlay == showModalHidden <=> overlayHidden

\* modal and overlay were shown by an open trigger pressed while the modal
\* was already open, and an overlay click hid both
C24_Witness ==
    /\ Len(hist) >= 2
    /\ Ev(1).ev.type = "open"
    /\ ~Ev(1).pre.modal.showModalHidden /\ ~Ev(1).pre.modal.overlayHidden
    /\ Ev(0).ev.type = "overlay"
    /\ ~Ev(0).pre.modal.showModalHidden /\ ~Ev(0).pre.modal.overlayHidden
    /\ showModalHidden /\ overlayHidden

\* --------------------------------------------------------------- C25
\* C25: a right-button click steps the slider forward, a left-button click
\* steps it back and a click on dot k moves it to slide k, in the same way
\* with the key listener attached and with it detached; and no click and
\* no key press changes the listeners of the document.
C25_ClicksIgnoreGate ==
    Len(hist) >= 1 =>
        LET i == Ev(0).pre.currentSlide
            type == Ev(0).ev.type
            goes(k) == currentSlide = k /\ Rendered(k) /\ OnlyActive(k)
        IN  /\ type = "right" => goes((i + 1) % N)
            /\ type = "left" => goes((i - 1 + N) % N)
            /\ (type = "dots" /\ Ev(0).ev.target >= 1) => goes(Ev(0).ev.target - 1)
            /\ type \in {"right", "left", "dots", "key"} =>
                   keydownListeners = Ev(0).pre.keydownListeners

\* the slider left the view with the key listener attached, which detached
\* it, and a right-button click then moved the slider on by one
C25_Witness ==
    /\ Len(hist) >= 2
    /\ N >= 3
    /\ IsExit(Ev(1)) /\ Attached(Ev(1).pre.keydownListeners)
    /\ Ev(0).ev.type = "right"
    /\ ~Attached(Ev(0).pre.keydownListeners)
    /\ Ev(0).pre.currentSlide = 1
    /\ currentSlide = 2
    /\ ~Attached(keydownListeners)

\* --------------------------------------------------------------- C26
\* C26: after a slider callback that delivers a batch of several entries
\* the key listener is attached exactly when the last entry of the batch,
\* the latest observation, reports the slider as intersecting.
C26_BatchFollowsLatest ==
    (Len(hist) >= 1 /\ Ev(0).ev.type = "visibility" /\ Len(Ev(0).ev.entries) >= 2) =>
        LET entries == Ev(0).ev.entries
        IN  Attached(keydownListeners) <=> entries[Len(entries)].isIntersecting

====
